---------------------------- MODULE Spec2Model ----------------------------
(***************************************************************************)
(* Model of pythonServer.py: a UDP receiver that binds a datagram socket,  *)
(* then loops forever: receive a datagram, decode it, print it, split it   *)
(* into tokens, parse the speed and print the motion directive.            *)
(*                                                                         *)
(* Text is modelled as it is in Python: a datagram is a sequence of bytes  *)
(* (0..255), a str is a sequence of Unicode code points, and decode /      *)
(* strip / split / int are computed on those sequences.                    *)
(***************************************************************************)
EXTENDS Integers, Sequences, FiniteSets

(***************************************************************************)
(* Bounds of the model.                                                    *)
(***************************************************************************)
\* number of datagrams the senders emit in one behaviour
MaxDatagrams == 3
\* capacity of the transport's receive buffer, in datagrams
QueueCap == 2

(***************************************************************************)
(* Program constants.                                                      *)
(***************************************************************************)
UDP_PORT == 8080
\* the bufsize argument of sock.recvfrom
RecvBufSize == 1024

(***************************************************************************)
(* The payloads the senders emit, as bytes, and the datagrams: a payload   *)
(* with the address of its sender (the addr recvfrom returns).             *)
(***************************************************************************)
Payloads ==
  { <<119, 32, 49, 53, 48>>,            \* "w 150"
    <<9, 115, 32, 32, 45, 55, 10>>,     \* "\ts  -7\n"
    <<101, 32, 43, 51>>,                \* "e +3"
    <<113, 194, 160, 217, 163>>,        \* "q<U+00A0><U+0663>"  (NBSP, ARABIC-INDIC THREE)
    <<107, 32, 48>>,                    \* "k 0"
    <<120, 32, 49, 48>>,                \* "x 10"
    <<120, 32, 97, 98, 99>>,            \* "x abc"
    <<119, 32, 97, 98, 99>>,            \* "w abc"
    <<119>>,                            \* "w"
    <<32, 10>>,                         \* " \n"
    <<119, 32, 49, 32, 50>>,            \* "w 1 2"
    <<119, 32, 255>> }                  \* "w " followed by the byte 0xFF

\* the payloads the second sender sends as well
SharedPayloads ==
  { <<119, 32, 49, 53, 48>>,            \* "w 150"
    <<119>> }                           \* "w"

\* the datagrams of the model
Datagrams ==
  [data : Payloads, addr : {"10.0.0.1:5000"}]
    \cup [data : SharedPayloads, addr : {"10.0.0.2:6000"}]

(***************************************************************************)
(* bytes.decode(): strict UTF-8.                                           *)
(***************************************************************************)
IsCont(b) == b >= 128 /\ b <= 191

\* length of the UTF-8 sequence that starts bytes[i], 0 if it is ill-formed
UTF8SeqLen(bytes, i) ==
  LET b0 == bytes[i]
      n  == Len(bytes) - i + 1
      b1 == bytes[i + 1]
  IN  IF b0 < 128 THEN 1
      ELSE IF b0 >= 194 /\ b0 <= 223
        THEN IF n >= 2 /\ IsCont(b1) THEN 2 ELSE 0
      ELSE IF b0 >= 224 /\ b0 <= 239
        THEN IF /\ n >= 3
                /\ IsCont(b1)
                /\ (b0 = 224 => b1 >= 160)
                /\ (b0 = 237 => b1 <= 159)
                /\ IsCont(bytes[i + 2])
             THEN 3 ELSE 0
      ELSE IF b0 >= 240 /\ b0 <= 244
        THEN IF /\ n >= 4
                /\ IsCont(b1)
                /\ (b0 = 240 => b1 >= 144)
                /\ (b0 = 244 => b1 <= 143)
                /\ IsCont(bytes[i + 2])
                /\ IsCont(bytes[i + 3])
             THEN 4 ELSE 0
      ELSE 0

\* the code point encoded by the well-formed sequence of length n at bytes[i]
UTF8CodePoint(bytes, i, n) ==
  CASE n = 1 -> bytes[i]
    [] n = 2 -> (bytes[i] - 192) * 64 + (bytes[i + 1] - 128)
    [] n = 3 -> (bytes[i] - 224) * 4096 + (bytes[i + 1] - 128) * 64
                  + (bytes[i + 2] - 128)
    [] n = 4 -> (bytes[i] - 240) * 262144 + (bytes[i + 1] - 128) * 4096
                  + (bytes[i + 2] - 128) * 64 + (bytes[i + 3] - 128)

RECURSIVE UTF8From(_, _)
UTF8From(bytes, i) ==
  IF i > Len(bytes) THEN [ok |-> TRUE, text |-> <<>>]
  ELSE LET n == UTF8SeqLen(bytes, i)
       IN  IF n = 0 THEN [ok |-> FALSE, text |-> <<>>]
           ELSE LET rest == UTF8From(bytes, i + n)
                IN  [ok   |-> rest.ok,
                     text |-> IF rest.ok
                              THEN <<UTF8CodePoint(bytes, i, n)>> \o rest.text
                              ELSE <<>>]

\* data.decode(errors="ignore"): the ill-formed bytes are dropped
DecodeIgnoringErrors(bytes) ==
  [ok |-> TRUE, text |-> SelectSeq(bytes, LAMBDA b : b < 128)]

\* data.decode(): ok = FALSE stands for UnicodeDecodeError
Decode(bytes) == UTF8From(bytes, 1)

(***************************************************************************)
(* str.strip() and str.split() without arguments.                          *)
(***************************************************************************)
\* str.isspace() of one code point
IsSpace(c) ==
  \/ c \in 9..13
  \/ c \in 28..32
  \/ c \in {133, 160, 5760}
  \/ c \in 8192..8202
  \/ c \in {8232, 8233, 8239, 8287, 12288}

RECURSIVE LStrip(_)
LStrip(s) ==
  IF s # <<>> /\ IsSpace(Head(s)) THEN LStrip(Tail(s)) ELSE s

RECURSIVE RStrip(_)
RStrip(s) ==
  IF s # <<>> /\ IsSpace(s[Len(s)]) THEN RStrip(SubSeq(s, 1, Len(s) - 1)) ELSE s

Strip(s) == RStrip(LStrip(s))

\* the tokens of s: maximal runs of non-whitespace; cur is the run being read
RECURSIVE SplitFrom(_, _)
SplitFrom(s, cur) ==
  IF s = <<>> THEN (IF cur = <<>> THEN <<>> ELSE <<cur>>)
  ELSE IF IsSpace(Head(s))
    THEN (IF cur = <<>> THEN <<>> ELSE <<cur>>) \o SplitFrom(Tail(s), <<>>)
    ELSE SplitFrom(Tail(s), Append(cur, Head(s)))

Split(s) == SplitFrom(s, <<>>)

(***************************************************************************)
(* int(str), base 10.                                                      *)
(***************************************************************************)
\* the code points of DIGIT ZERO in every Unicode decimal-digit (Nd) block
DecimalZeros ==
  { 48, 1632, 1776, 1984, 2406, 2534, 2662, 2790, 2918, 3046, 3174, 3302,
    3430, 3558, 3664, 3792, 3872, 4160, 4240, 6112, 6160, 6470, 6608, 6784,
    6800, 6992, 7088, 7232, 7248, 42528, 43216, 43264, 43472, 43504, 43600,
    44016, 65296, 66720, 68912, 69734, 69872, 69942, 70096, 70384, 70736,
    70864, 71248, 71360, 71472, 71904, 72016, 72784, 73040, 73120, 92768,
    92864, 93008, 120782, 120792, 120802, 120812, 120822, 123200, 123632,
    125264, 130032 }

IsDigit(c) == \E z \in DecimalZeros : c >= z /\ c <= z + 9

DigitValue(c) == c - (CHOOSE z \in DecimalZeros : c >= z /\ c <= z + 9)

IsSign(c) == c = 43 \/ c = 45

\* digits, with single underscores allowed between two digits
IsDigitString(d) ==
  /\ d # <<>>
  /\ \A i \in 1..Len(d) :
       \/ IsDigit(d[i])
       \/ /\ d[i] = 95
          /\ i > 1 /\ i < Len(d)
          /\ IsDigit(d[i - 1]) /\ IsDigit(d[i + 1])

Unsigned(tok) == IF tok # <<>> /\ IsSign(Head(tok)) THEN Tail(tok) ELSE tok

IsIntLiteral(tok) == IsDigitString(Unsigned(tok))

RECURSIVE Magnitude(_, _)
Magnitude(d, acc) ==
  IF d = <<>> THEN acc
  ELSE IF Head(d) = 95 THEN Magnitude(Tail(d), acc)
  ELSE Magnitude(Tail(d), 10 * acc + DigitValue(Head(d)))

IntValue(tok) ==
  IF Head(tok) = 45 THEN 0 - Magnitude(Unsigned(tok), 0)
  ELSE Magnitude(Unsigned(tok), 0)

\* a parse wrapped in "except ValueError: speed = 0"
IntOrZero(tok) ==
  [ok |-> TRUE, value |-> IF IsIntLiteral(tok) THEN IntValue(tok) ELSE 0]

\* int(tok): ok = FALSE stands for ValueError
ParseInt(tok) ==
  [ok |-> IsIntLiteral(tok),
   value |-> IF IsIntLiteral(tok) THEN IntValue(tok) ELSE 0]

(***************************************************************************)
(* The lines the program prints.  A line is its fixed text and the values  *)
(* formatted into it.                                                      *)
(***************************************************************************)
ListeningLine == [text |-> "Listening for UDP packets on port", args |-> <<UDP_PORT>>]

ReceivedLine(a, m) == [text |-> "Received from", args |-> <<a, m>>]

InvalidLine == [text |-> "Invalid command format", args |-> <<>>]

UnknownLine == [text |-> "Unknown command", args |-> <<>>]

DirectiveTexts ==
  { "Forward speed", "Backward speed", "Rotate right speed",
    "Rotate left speed", "Stop" }

\* the if/elif chain with the bodies of "e" and "q" exchanged
DispatchLineSwapped(d, v) ==
  IF d = <<119>> THEN [text |-> "Forward speed", args |-> <<v>>]
  ELSE IF d = <<115>> THEN [text |-> "Backward speed", args |-> <<v>>]
  ELSE IF d = <<101>> THEN [text |-> "Rotate left speed", args |-> <<v>>]
  ELSE IF d = <<113>> THEN [text |-> "Rotate right speed", args |-> <<v>>]
  ELSE IF d = <<107>> THEN [text |-> "Stop", args |-> <<v>>]
  ELSE UnknownLine

\* the if/elif chain with the last test dropped: "else: Stop"
DispatchLineNoElse(d, v) ==
  IF d = <<119>> THEN [text |-> "Forward speed", args |-> <<v>>]
  ELSE IF d = <<115>> THEN [text |-> "Backward speed", args |-> <<v>>]
  ELSE IF d = <<101>> THEN [text |-> "Rotate right speed", args |-> <<v>>]
  ELSE IF d = <<113>> THEN [text |-> "Rotate left speed", args |-> <<v>>]
  ELSE [text |-> "Stop", args |-> <<v>>]

\* the if/elif chain on direction: "w" "s" "e" "q" "k", else unknown
DispatchLine(d, v) ==
  IF d = <<119>> THEN [text |-> "Forward speed", args |-> <<v>>]
  ELSE IF d = <<115>> THEN [text |-> "Backward speed", args |-> <<v>>]
  ELSE IF d = <<101>> THEN [text |-> "Rotate right speed", args |-> <<v>>]
  ELSE IF d = <<113>> THEN [text |-> "Rotate left speed", args |-> <<v>>]
  ELSE IF d = <<107>> THEN [text |-> "Stop", args |-> <<v>>]
  ELSE UnknownLine

\* "if len(parts) >= 2"
AtLeastTwoParts(p) == Len(p) >= 2

\* "if len(parts) == 2"
HasTwoParts(p) == Len(p) = 2

\* the datagram recvfrom would return if it took the newest one
NewestDatagram(q) == q[Len(q)]

\* the datagram recvfrom returns: the oldest one in the receive buffer
NextDatagram(q) == Head(q)

\* the receive buffer once recvfrom has returned
AfterRecv(q) == Tail(q)

\* recvfrom(1024) returns at most 1024 bytes of the datagram
Truncate(bytes) ==
  IF Len(bytes) > RecvBufSize THEN SubSeq(bytes, 1, RecvBufSize) ELSE bytes

(***************************************************************************)
(* State.                                                                  *)
(***************************************************************************)
VARIABLES
  pc,         \* the statement the script executes next
  fault,      \* the exception that ended the process, "none" while it runs
  sock,       \* the socket: "unbound", "bound", "closed"
  netq,       \* the receive buffer of the socket: datagrams [data, addr]
  data, addr, msg, parts, direction, speed,   \* the script's variables
  log,        \* standard output: the lines printed so far
  sent,       \* history: number of datagrams the senders have emitted
  delivered,  \* history: the datagrams the transport put in the buffer
  recvd,      \* history: the (data, addr) pairs recvfrom returned
  intCalls,   \* history: the numbers of the datagrams int() was called for
  lineOf      \* history: lineOf[i] = number of the datagram (its index in
              \* recvd) being processed when log[i] was printed, 0 at startup

vars == <<pc, fault, sock, netq, data, addr, msg, parts, direction, speed,
          log, sent, delivered, recvd, intCalls, lineOf>>

locals == <<data, addr, msg, parts, direction, speed>>
history == <<sent, delivered, intCalls>>

\* Names the script has not assigned yet are unbound in Python; the model
\* gives them an empty value that no statement reads before assigning it.
Init ==
  /\ pc = "bind"
  /\ fault = "none"
  /\ sock = "unbound"
  /\ netq = <<>>
  /\ data = <<>> /\ addr = "" /\ msg = <<>> /\ parts = <<>>
  /\ direction = <<>> /\ speed = 0
  /\ log = <<>>
  /\ sent = 0
  /\ delivered = <<>>
  /\ recvd = <<>>
  /\ intCalls = {}
  /\ lineOf = <<>>

\* print(line)
Emit(line) ==
  /\ log' = Append(log, line)
  /\ lineOf' = Append(lineOf, Len(recvd))

\* an exception nothing catches: the interpreter exits, the socket closes
Raise(exc) ==
  /\ pc' = "crashed"
  /\ fault' = exc
  /\ sock' = "closed"
  /\ netq' = <<>>

(***************************************************************************)
(* The senders and the transport.                                          *)
(***************************************************************************)
\* A sender emits a datagram.  It is queued if the socket is bound and the
\* buffer has room, and lost otherwise.
Send(d) ==
  /\ sent < MaxDatagrams
  /\ sent' = sent + 1
  /\ IF sock = "bound" /\ Len(netq) < QueueCap
       THEN /\ netq' = Append(netq, d)
            /\ delivered' = Append(delivered, d)
       ELSE UNCHANGED <<netq, delivered>>
  /\ UNCHANGED <<pc, fault, sock, locals, log, recvd, intCalls, lineOf>>

(***************************************************************************)
(* The script, statement by statement.                                     *)
(***************************************************************************)
\* a failed bind that is ignored: the script goes on with an unbound socket
BindUnchecked ==
  /\ pc = "bind"
  /\ \E ok \in BOOLEAN :
       /\ sock' = IF ok THEN "bound" ELSE "unbound"
       /\ pc' = "announce"
       /\ UNCHANGED <<fault, netq>>
  /\ UNCHANGED <<locals, log, history, recvd, lineOf>>

\* sock = socket.socket(...); sock.bind((UDP_IP, UDP_PORT))
Bind ==
  /\ pc = "bind"
  /\ \E ok \in BOOLEAN :
       IF ok
         THEN /\ sock' = "bound"
              /\ pc' = "announce"
              /\ UNCHANGED <<fault, netq>>
         ELSE Raise("OSError")
  /\ UNCHANGED <<locals, log, history, recvd, lineOf>>

\* print(f"Listening for UDP packets on port {UDP_PORT}...")
Announce ==
  /\ pc = "announce"
  /\ Emit(ListeningLine)
  /\ pc' = "recv"
  /\ UNCHANGED <<fault, sock, netq, locals, history, recvd>>

\* data, addr = sock.recvfrom(1024): blocks while the buffer is empty
Recv ==
  /\ pc = "recv"
  /\ netq # <<>>
  /\ data' = Truncate(NextDatagram(netq).data)
  /\ addr' = NextDatagram(netq).addr
  /\ recvd' = Append(recvd, [data |-> Truncate(NextDatagram(netq).data),
                              addr |-> NextDatagram(netq).addr])
  /\ netq' = AfterRecv(netq)
  /\ pc' = "decode"
  /\ UNCHANGED <<fault, sock, msg, parts, direction, speed, log, history, lineOf>>

\* msg = data.decode().strip()
DecodeStrip ==
  /\ pc = "decode"
  /\ IF Decode(data).ok
       THEN /\ msg' = Strip(Decode(data).text)
            /\ pc' = "print_received"
            /\ UNCHANGED <<fault, sock, netq>>
       ELSE /\ Raise("UnicodeDecodeError")
            /\ UNCHANGED msg
  /\ UNCHANGED <<data, addr, parts, direction, speed, log, history, recvd, lineOf>>

\* the statement left out
SkipPrintReceived ==
  /\ pc = "print_received"
  /\ pc' = "split"
  /\ UNCHANGED <<fault, sock, netq, locals, log, lineOf, history, recvd>>

\* print(f"Received from {addr}: {msg}")
PrintReceived ==
  /\ pc = "print_received"
  /\ Emit(ReceivedLine(addr, msg))
  /\ pc' = "split"
  /\ UNCHANGED <<fault, sock, netq, locals, history, recvd>>

\* parts = msg.split(); if len(parts) == 2: direction = parts[0] ... else: ...
SplitMsg ==
  /\ pc = "split"
  /\ parts' = Split(msg)
  /\ IF HasTwoParts(parts')
       THEN /\ direction' = parts'[1]
            /\ pc' = "parse"
       ELSE /\ pc' = "invalid"
            /\ UNCHANGED direction
  /\ UNCHANGED <<fault, sock, netq, data, addr, msg, speed, log,
                 history, recvd, lineOf>>

\* "speed += int(parts[1])": the speed of earlier datagrams is kept
ParseSpeedAccumulating ==
  /\ pc = "parse"
  /\ IF ParseInt(parts[2]).ok
       THEN /\ speed' = speed + ParseInt(parts[2]).value
            /\ pc' = "dispatch"
            /\ UNCHANGED <<fault, sock, netq>>
       ELSE /\ Raise("ValueError")
            /\ UNCHANGED speed
  /\ intCalls' = intCalls \cup {Len(recvd)}
  /\ UNCHANGED <<data, addr, msg, parts, direction, log, sent, delivered,
                 recvd, lineOf>>

\* speed = int(parts[1])
ParseSpeed ==
  /\ pc = "parse"
  /\ IF ParseInt(parts[2]).ok
       THEN /\ speed' = ParseInt(parts[2]).value
            /\ pc' = "dispatch"
            /\ UNCHANGED <<fault, sock, netq>>
       ELSE /\ Raise("ValueError")
            /\ UNCHANGED speed
  /\ intCalls' = intCalls \cup {Len(recvd)}
  /\ UNCHANGED <<data, addr, msg, parts, direction, log, sent, delivered,
                 recvd, lineOf>>

\* the if/elif/else chain with a "break" after the print
DispatchThenStop ==
  /\ pc = "dispatch"
  /\ Emit(DispatchLine(direction, speed))
  /\ pc' = "exited"
  /\ sock' = "closed" /\ netq' = <<>>
  /\ UNCHANGED <<fault, locals, history, recvd>>

\* if direction == "w": print(...) elif ... else: print("Unknown command")
Dispatch ==
  /\ pc = "dispatch"
  /\ Emit(DispatchLine(direction, speed))
  /\ pc' = "recv"
  /\ UNCHANGED <<fault, sock, netq, locals, history, recvd>>

\* else: print("Invalid command format")
ReportInvalid ==
  /\ pc = "invalid"
  /\ Emit(InvalidLine)
  /\ pc' = "recv"
  /\ UNCHANGED <<fault, sock, netq, locals, history, recvd>>

Next ==
  \/ \E d \in Datagrams : Send(d)
  \/ Bind
  \/ Announce
  \/ Recv
  \/ DecodeStrip
  \/ PrintReceived
  \/ SplitMsg
  \/ ParseSpeed
  \/ Dispatch
  \/ ReportInvalid

Spec == Init /\ [][Next]_vars

(***************************************************************************)
(* Reading the history: what was printed for the n-th datagram received.   *)
(***************************************************************************)
Received == 1..Len(recvd)

RECURSIVE LinesFrom(_, _)
LinesFrom(n, i) ==
  IF i > Len(log) THEN <<>>
  ELSE IF lineOf[i] = n THEN <<log[i]>> \o LinesFrom(n, i + 1)
  ELSE LinesFrom(n, i + 1)

\* the lines printed while the n-th datagram was being processed, in order
LinesOf(n) == LinesFrom(n, 1)

\* those of them that are not the "Received from" line
OutcomeLines(n) == SelectSeq(LinesOf(n), LAMBDA l : l.text # "Received from")

\* the iteration of the n-th datagram is over
Finished(n) ==
  \/ n < Len(recvd)
  \/ n = Len(recvd) /\ pc \in {"recv", "crashed", "exited"}

\* the process ended while processing the n-th datagram
DiedAt(n) == n = Len(recvd) /\ pc \in {"crashed", "exited"}

\* the process is blocked in recvfrom with its socket bound
Listening == pc = "recv" /\ sock = "bound" /\ fault = "none"

\* What the payloads of the model are as text, computed once: whether the
\* bytes are well-formed UTF-8, the trimmed text, its tokens, and whether the
\* second token is an integer literal and of what value.
Receivable == { Truncate(p) : p \in Payloads }

TextOfPayload ==
  [ p \in Receivable |->
      LET d == UTF8From(p, 1)
          t == Split(Strip(d.text))
      IN  [ok      |-> d.ok,
           trimmed |-> Strip(d.text),
           tokens  |-> t,
           isInt   |-> Len(t) >= 2 /\ IsIntLiteral(t[2]),
           int     |-> IF Len(t) >= 2 /\ IsIntLiteral(t[2])
                       THEN IntValue(t[2]) ELSE 0] ]

Decodes(n) == TextOfPayload[recvd[n].data].ok
TrimmedOf(n) == TextOfPayload[recvd[n].data].trimmed
TokensOf(n) == TextOfPayload[recvd[n].data].tokens
SpeedIsInt(n) == TextOfPayload[recvd[n].data].isInt
SpeedOf(n) == TextOfPayload[recvd[n].data].int

KnownDirections == { <<119>>, <<115>>, <<101>>, <<113>>, <<107>> }

\* w -> Forward, s -> Backward, e -> RotateRight, q -> RotateLeft, k -> Stop
DirectiveOf(tok) ==
  CASE tok = <<119>> -> "Forward speed"
    [] tok = <<115>> -> "Backward speed"
    [] tok = <<101>> -> "Rotate right speed"
    [] tok = <<113>> -> "Rotate left speed"
    [] tok = <<107>> -> "Stop"

IsCommand(n) ==
  /\ Decodes(n)
  /\ Len(TokensOf(n)) = 2
  /\ TokensOf(n)[1] \in KnownDirections
  /\ SpeedIsInt(n)

IsUnknownDirection(n) ==
  /\ Decodes(n)
  /\ Len(TokensOf(n)) = 2
  /\ TokensOf(n)[1] \notin KnownDirections

IsMalformed(n) == Decodes(n) /\ Len(TokensOf(n)) # 2

IsBadSpeed(n) ==
  /\ Decodes(n)
  /\ Len(TokensOf(n)) = 2
  /\ ~ SpeedIsInt(n)

\* the five commands of the model with the line each must produce
ExpectedLine(bytes) ==
  CASE bytes = <<119, 32, 49, 53, 48>>        -> [text |-> "Forward speed", args |-> <<150>>]
    [] bytes = <<9, 115, 32, 32, 45, 55, 10>> -> [text |-> "Backward speed", args |-> <<0 - 7>>]
    [] bytes = <<101, 32, 43, 51>>            -> [text |-> "Rotate right speed", args |-> <<3>>]
    [] bytes = <<113, 194, 160, 217, 163>>    -> [text |-> "Rotate left speed", args |-> <<3>>]
    [] bytes = <<107, 32, 48>>                -> [text |-> "Stop", args |-> <<0>>]

CommandPayloads ==
  { <<119, 32, 49, 53, 48>>, <<9, 115, 32, 32, 45, 55, 10>>, <<101, 32, 43, 51>>,
    <<113, 194, 160, 217, 163>>, <<107, 32, 48>> }

(***************************************************************************)
(* C1.  A datagram whose trimmed text is two tokens, the first one of      *)
(* w s e q k and the second an integer, gets exactly one outcome line: the *)
(* directive of its first token (w Forward, s Backward, e Rotate right,    *)
(* q Rotate left, k Stop) with the parsed integer, negative and zero       *)
(* included, as its speed.                                                 *)
(***************************************************************************)
C1_CommandDispatched ==
  \A n \in Received :
    Finished(n) =>
      /\ IsCommand(n) =>
           OutcomeLines(n) =
             << [text |-> DirectiveOf(TokensOf(n)[1]),
                 args |-> <<SpeedOf(n)>>] >>
      /\ recvd[n].data \in CommandPayloads =>
           OutcomeLines(n) = << ExpectedLine(recvd[n].data) >>

\* "\ts  -7\n" was reported as Backward with speed -7, "k 0" as Stop 0
C1_Witness ==
  \E m, n \in Received :
    /\ Finished(m) /\ Finished(n)
    /\ recvd[m].data = <<9, 115, 32, 32, 45, 55, 10>>
    /\ OutcomeLines(m) = << [text |-> "Backward speed", args |-> <<0 - 7>>] >>
    /\ recvd[n].data = <<107, 32, 48>>
    /\ OutcomeLines(n) = << [text |-> "Stop", args |-> <<0>>] >>

(***************************************************************************)
(* C2.  As claimed: a datagram of two tokens whose first token is not one  *)
(* of w s e q k gets the "Unknown command" line and no directive, whatever *)
(* its second token is, and the process goes on listening.                 *)
(***************************************************************************)
C2_UnknownWhateverSpeed ==
  \A n \in Received :
    (Finished(n) /\ IsUnknownDirection(n)) =>
      /\ OutcomeLines(n) = << UnknownLine >>
      /\ ~ DiedAt(n)

(***************************************************************************)
(* C2, amended.  A datagram of two tokens whose first token is not one of  *)
(* w s e q k and whose second token parses as an integer gets the          *)
(* "Unknown command" line and no directive, and the process goes on        *)
(* listening.                                                              *)
(***************************************************************************)
C2_UnknownWithIntegerSpeed ==
  \A n \in Received :
    (Finished(n) /\ IsUnknownDirection(n) /\ SpeedIsInt(n)) =>
      /\ OutcomeLines(n) = << UnknownLine >>
      /\ ~ DiedAt(n)
      /\ n = Len(recvd) => Listening

\* "x 10" was reported unknown and a later datagram was received
C2_Witness ==
  \E n \in Received :
    /\ n < Len(recvd)
    /\ recvd[n].data = <<120, 32, 49, 48>>
    /\ OutcomeLines(n) = << UnknownLine >>

(***************************************************************************)
(* C3.  A datagram whose trimmed text has zero, one, three or more tokens  *)
(* gets the "Invalid command format" line and no directive, int() is not   *)
(* called for it, and the process goes on listening.                       *)
(***************************************************************************)
C3_MalformedRejected ==
  \A n \in Received :
    IsMalformed(n) =>
      /\ n \notin intCalls
      /\ Finished(n) =>
           /\ OutcomeLines(n) = << InvalidLine >>
           /\ ~ DiedAt(n)
           /\ n = Len(recvd) => Listening

\* zero, one and three tokens were each reported invalid
C3_Witness ==
  /\ Len(recvd) = 3
  /\ Finished(3)
  /\ { Len(TokensOf(n)) : n \in Received } = {0, 1, 3}
  /\ \A n \in Received : OutcomeLines(n) = << InvalidLine >>

(***************************************************************************)
(* C4.  A datagram of two tokens whose second token is not an integer      *)
(* ends the process in its iteration with ValueError: no outcome line is   *)
(* printed for it and no later datagram is received.                       *)
(***************************************************************************)
C4_BadSpeedCrashes ==
  \A n \in Received :
    IsBadSpeed(n) =>
      /\ n = Len(recvd)
      /\ OutcomeLines(n) = <<>>
      /\ pc \in {"decode", "print_received", "split", "parse", "crashed"}
      /\ pc = "crashed" => (fault = "ValueError" /\ sock = "closed" /\ netq = <<>>)

\* "w abc" crashed the process after an earlier datagram was dispatched
C4_Witness ==
  /\ Len(recvd) = 2
  /\ recvd[2].data = <<119, 32, 97, 98, 99>>
  /\ pc = "crashed" /\ fault = "ValueError"
  /\ Len(OutcomeLines(1)) = 1
  /\ LinesOf(2) = << ReceivedLine(recvd[2].addr, <<119, 32, 97, 98, 99>>) >>

(***************************************************************************)
(* C5.  Two datagrams with the same payload get the same outcome, whoever  *)
(* sent them and whatever was processed before or between them.            *)
(***************************************************************************)
OutcomeOf(n) == [lines |-> OutcomeLines(n), died |-> DiedAt(n)]

C5_OutcomeDependsOnPayloadOnly ==
  \A m, n \in Received :
    (m < n /\ Finished(n) /\ recvd[m].data = recvd[n].data) =>
      OutcomeOf(m) = OutcomeOf(n)

\* "w 150" from two senders with another command between them
C5_Witness ==
  /\ Len(recvd) = 3 /\ Finished(3)
  /\ recvd[1].data = <<119, 32, 49, 53, 48>>
  /\ recvd[3].data = recvd[1].data
  /\ recvd[3].addr # recvd[1].addr
  /\ recvd[2].data = <<9, 115, 32, 32, 45, 55, 10>>
  /\ OutcomeLines(3) = << [text |-> "Forward speed", args |-> <<150>>] >>
  /\ OutcomeLines(1) = OutcomeLines(3)

(***************************************************************************)
(* C6.  As claimed: every datagram received has a first line naming its    *)
(* sender and message, and every dispatch or rejection a second line.      *)
(***************************************************************************)
OutcomeTexts ==
  DirectiveTexts \cup {"Unknown command", "Invalid command format"}

C6_EveryDatagramLogged ==
  \A n \in Received :
    Finished(n) =>
      /\ LinesOf(n) # <<>>
      /\ LinesOf(n)[1].text = "Received from"
      /\ LinesOf(n)[1].args[1] = recvd[n].addr
      /\ ~ DiedAt(n) =>
           (Len(LinesOf(n)) = 2 /\ LinesOf(n)[2].text \in OutcomeTexts)

(***************************************************************************)
(* C6, amended.  Every datagram received whose payload decodes has a first *)
(* line naming its sender and its trimmed message; if it ends in a         *)
(* dispatch or a rejection it has exactly one more line, the outcome,      *)
(* printed after the first; a datagram whose payload does not decode has   *)
(* no line at all.                                                         *)
(***************************************************************************)
C6_DecodedDatagramLogged ==
  \A n \in Received :
    /\ (Decodes(n) /\ (Finished(n) \/ pc \notin {"decode", "print_received"})) =>
         /\ LinesOf(n) # <<>>
         /\ LinesOf(n)[1] =
              ReceivedLine(recvd[n].addr, TrimmedOf(n))
         /\ (Finished(n) /\ ~ DiedAt(n)) =>
              (Len(LinesOf(n)) = 2 /\ LinesOf(n)[2].text \in OutcomeTexts)
         /\ DiedAt(n) => Len(LinesOf(n)) = 1
    /\ ~ Decodes(n) => LinesOf(n) = <<>>

\* a dispatched datagram and a rejected one, each with its two lines
C6_Witness ==
  /\ Len(recvd) = 2 /\ Finished(2) /\ ~ DiedAt(2)
  /\ LinesOf(1) = << ReceivedLine("10.0.0.2:6000", <<119, 32, 49, 53, 48>>),
                     [text |-> "Forward speed", args |-> <<150>>] >>
  /\ LinesOf(2) = << ReceivedLine("10.0.0.1:5000", <<>>), InvalidLine >>

(***************************************************************************)
(* C7.  If bind fails the process ends there: the "Listening" line is not  *)
(* printed and no datagram is received, logged or dispatched.              *)
(***************************************************************************)
\* the script is past bind and the socket was never bound
BindFailed ==
  /\ pc # "bind"
  /\ sock # "bound"
  /\ fault \notin {"UnicodeDecodeError", "ValueError"}

C7_BindFailureIsFatal ==
  BindFailed =>
    /\ pc = "crashed" /\ fault = "OSError"
    /\ log = <<>> /\ lineOf = <<>>
    /\ recvd = <<>> /\ netq = <<>> /\ delivered = <<>>
    /\ intCalls = {}

\* bind failed and every datagram sent since was lost
C7_Witness ==
  /\ BindFailed
  /\ sent = MaxDatagrams
  /\ pc = "crashed"

(***************************************************************************)
(* C8.  Once bound, the process stops listening only by crashing in decode *)
(* or in int(): when every datagram received so far has got its outcome    *)
(* line, the process is blocked in recvfrom on the bound socket and takes  *)
(* the next datagram of the buffer; and a crashed process crashed at bind  *)
(* or on its last datagram, which got no outcome line.                     *)
(***************************************************************************)
C8_ListensUntilCrash ==
  /\ (log # <<>> /\ \A n \in Received : Len(OutcomeLines(n)) = 1) =>
       /\ Listening
       /\ netq # <<>> => ENABLED Recv
  /\ pc \in {"bind", "announce", "recv", "decode", "print_received", "split",
             "parse", "dispatch", "invalid", "crashed"}
  /\ pc = "crashed" =>
       \/ fault = "OSError" /\ recvd = <<>>
       \/ /\ fault = "UnicodeDecodeError"
          /\ recvd # <<>> /\ ~ Decodes(Len(recvd))
          /\ OutcomeLines(Len(recvd)) = <<>>
       \/ /\ fault = "ValueError"
          /\ recvd # <<>> /\ IsBadSpeed(Len(recvd))
          /\ OutcomeLines(Len(recvd)) = <<>>

\* a directive, an unknown command and a malformed one, and still listening
C8_Witness ==
  /\ Len(recvd) = 3
  /\ Listening
  /\ { OutcomeLines(n)[1].text : n \in Received } =
       {"Stop", "Unknown command", "Invalid command format"}

(***************************************************************************)
(* C9.  A datagram whose payload is not valid UTF-8 ends the process at    *)
(* the decode step with UnicodeDecodeError: no line is printed for it and  *)
(* no later datagram is received.                                          *)
(***************************************************************************)
C9_UndecodableCrashes ==
  \A n \in Received :
    ~ Decodes(n) =>
      /\ n = Len(recvd)
      /\ LinesOf(n) = <<>>
      /\ pc \in {"decode", "crashed"}
      /\ pc = "crashed" =>
           (fault = "UnicodeDecodeError" /\ sock = "closed" /\ netq = <<>>)

\* the 0xFF payload crashed the process while another datagram was queued
C9_Witness ==
  /\ Len(recvd) = 2
  /\ recvd[2].data = <<119, 32, 255>>
  /\ pc = "crashed" /\ fault = "UnicodeDecodeError"
  /\ Len(delivered) = 3
  /\ Len(LinesOf(1)) = 2

(***************************************************************************)
(* C10.  Datagrams are taken one at a time in the order the transport      *)
(* queued them, and both lines of a datagram are printed before the next   *)
(* datagram is taken: the lines of two datagrams never interleave.         *)
(***************************************************************************)
C10_OneAtATimeInOrder ==
  /\ Len(recvd) <= Len(delivered)
  /\ \A n \in Received :
       /\ recvd[n].addr = delivered[n].addr
       /\ recvd[n].data = Truncate(delivered[n].data)
  /\ \A i \in 1..(Len(log) - 1) : lineOf[i] <= lineOf[i + 1]
  /\ \A n \in Received :
       n < Len(recvd) =>
         /\ Len(LinesOf(n)) = 2
         /\ LinesOf(n)[1].text = "Received from"
         /\ LinesOf(n)[2].text \in OutcomeTexts

\* two senders' datagrams were queued together and processed in turn
C10_Witness ==
  /\ Len(recvd) = 3
  /\ pc = "decode"
  /\ recvd[1].addr # recvd[2].addr
  /\ recvd[1].data # recvd[2].data
  /\ lineOf = <<0, 1, 1, 2, 2>>
  /\ Len(delivered) = 3

=============================================================================
